---- MODULE Spec2Model ----
(***************************************************************************)
(* A model of openqa_review/browser.py: the Browser object (configuration, *)
(* in-memory cache), the load and save directories, the remote server seen *)
(* through requests/urllib3, and one action per public operation.          *)
(*                                                                         *)
(* Strings that the code only stores and compares (response bodies) are    *)
(* TLA+ strings; strings that the code transforms character by character   *)
(* (URLs, file names) are sequences of one-character strings.              *)
(***************************************************************************)
EXTENDS Integers, Sequences, FiniteSets, TLC

VARIABLES
    save, load, dry_run,   \* self.save, self.load, self.dry_run
    load_dir, save_dir,    \* self.load_dir, self.save_dir
    root_url, auth,        \* self.root_url, self.auth
    headers,               \* self.headers (the header names)
    cache,                 \* self.cache: a function, DOMAIN cache = the keys
    load_files,            \* the files of load_dir: file name -> content
    save_files,            \* the files of save_dir: file name -> content
    phase,                 \* "first": the Browser of the first run; "replay": a
                           \* new Browser, built with --load on the saved files
    steps,                 \* the number of calls made since that restart
    last                   \* the last operation: its arguments, result, I/O

config == <<save, load, load_dir, save_dir, dry_run, root_url, auth, headers>>
vars == <<save, load, load_dir, save_dir, dry_run, root_url, auth, headers, cache,
          load_files, save_files, phase, steps, last>>

(***************************************************************************)
(* Bounds of the model.                                                    *)
(***************************************************************************)
\* The server fails at most this many times in a row before its final answer.
MaxFailures == 8
\* The run that replays the saved files makes at most this many calls.
MaxReplayOps == 1
\* The URLs given to url_to_filename have at most this many characters.
MaxUrlLen == 3

(***************************************************************************)
(* Program constants.                                                      *)
(***************************************************************************)
RetryTotal == 7
PostAttempts == 6
BugNotFoundCode == 101
StatusForcelist == {"429", "500", "502", "503", "504"}

(***************************************************************************)
(* Sequences of characters.                                                *)
(***************************************************************************)
RECURSIVE Replace(_, _, _)
\* str.replace(old, new) for one-character old and new
Replace(s, old, new) ==
    IF s = <<>> THEN <<>>
    ELSE <<IF Head(s) = old THEN new ELSE Head(s)>> \o Replace(Tail(s), old, new)

RECURSIVE StartsWith(_, _)
StartsWith(s, p) ==
    IF p = <<>> THEN TRUE
    ELSE IF s = <<>> THEN FALSE
    ELSE Head(s) = Head(p) /\ StartsWith(Tail(s), Tail(p))

RECURSIVE RemoveAll(_, _)
\* str.replace(p, "") for a non-empty p
RemoveAll(s, p) ==
    IF s = <<>> THEN <<>>
    ELSE IF StartsWith(s, p) THEN RemoveAll(SubSeq(s, Len(p) + 1, Len(s)), p)
    ELSE <<Head(s)>> \o RemoveAll(Tail(s), p)

\* Characters urllib.parse.quote never encodes (letters, digits, "_.-~");
\* the letters and digits listed are the ones the model's URLs use.
Unreserved == {"a", "b", "d", "e", "g", "h", "m", "o", "p", "r", "s", "t", "u", "y",
               "A", "B", "D", "F", "0", "1", "2", "3", "5", "6", "7", "_", ".", "-", "~"}

\* "%XX" of the encoded characters the model's URLs use
PercentCode(c) ==
    CASE c = ":" -> <<"%", "3", "A">>
      [] c = "%" -> <<"%", "2", "5">>
      [] c = "?" -> <<"%", "3", "F">>
      [] c = "=" -> <<"%", "3", "D">>
      [] c = "&" -> <<"%", "2", "6">>
      [] c = "[" -> <<"%", "5", "B">>
      [] c = "]" -> <<"%", "5", "D">>
      [] c = "+" -> <<"%", "2", "B">>
      [] c = " " -> <<"%", "2", "0">>
      [] c = "/" -> <<"%", "2", "F">>

RECURSIVE quote(_, _)
\* urllib.parse.quote(s, safe)
quote(s, safe) ==
    IF s = <<>> THEN <<>>
    ELSE (IF Head(s) \in Unreserved \cup safe THEN <<Head(s)>> ELSE PercentCode(Head(s)))
         \o quote(Tail(s), safe)

\* urllib.parse.quote_plus(s): a space becomes "+", nothing else is safe
quote_plus(s) == Replace(quote(s, {" "}), " ", "+")

\* (mutant: only the first character of the name is kept)
url_to_filename_first_character(url) == SubSeq(Replace(quote(url, {"/"}), "/", ":"), 1, 1)

url_to_filename(url) == Replace(quote(url, {"/"}), "/", ":")

\* The characters of codes 32..126, in order (U+5C and U+60 stand for
\* the backslash and the grave accent)
Printable ==
    <<" ", "!", "\"", "#", "$", "%", "&", "'", "(", ")", "*", "+", ",", "-", ".", "/",
      "0", "1", "2", "3", "4", "5", "6", "7", "8", "9", ":", ";", "<", "=", ">", "?",
      "@", "A", "B", "C", "D", "E", "F", "G", "H", "I", "J", "K", "L", "M", "N", "O",
      "P", "Q", "R", "S", "T", "U", "V", "W", "X", "Y", "Z", "[", "U+5C", "]", "^", "_",
      "U+60", "a", "b", "c", "d", "e", "f", "g", "h", "i", "j", "k", "l", "m", "n", "o",
      "p", "q", "r", "s", "t", "u", "v", "w", "x", "y", "z", "{", "|", "}", "~">>

HexDigits == <<"0", "1", "2", "3", "4", "5", "6", "7", "8", "9",
               "A", "B", "C", "D", "E", "F">>
LowerHexDigits == <<"a", "b", "c", "d", "e", "f">>

IsHex(c) ==
    \/ \E i \in 1..Len(HexDigits) : HexDigits[i] = c
    \/ \E i \in 1..Len(LowerHexDigits) : LowerHexDigits[i] = c

HexVal(c) ==
    IF \E i \in 1..Len(HexDigits) : HexDigits[i] = c
    THEN (CHOOSE i \in 1..Len(HexDigits) : HexDigits[i] = c) - 1
    ELSE (CHOOSE i \in 1..Len(LowerHexDigits) : LowerHexDigits[i] = c) + 9

\* bytes([code]).decode("utf-8", "replace") for one byte that no other
\* escaped byte follows: a printable character is itself, and a byte of
\* 128 or more, alone, is replaced by U+FFFD; the names of the model hold
\* no escaped control character, written U+00 here
DecodeByte(code) ==
    IF 32 <= code /\ code <= 126 THEN Printable[code - 31]
    ELSE IF code >= 128 THEN "U+FFFD"
    ELSE "U+00"

RECURSIVE unquote(_)
\* urllib.parse.unquote(s): "%" and two hexadecimal digits become the
\* character of that code; any other "%" stays
unquote(s) ==
    IF s = <<>> THEN <<>>
    ELSE IF Head(s) = "%" /\ Len(s) >= 3 /\ IsHex(s[2]) /\ IsHex(s[3])
    THEN <<DecodeByte(16 * HexVal(s[2]) + HexVal(s[3]))>> \o unquote(SubSeq(s, 4, Len(s)))
    ELSE <<Head(s)>> \o unquote(Tail(s))

\* (mutant: the name is unquoted before ":" is turned back into "/")
filename_to_url_unquote_first(name) == Replace(unquote(name), ":", "/")

filename_to_url(name) == unquote(Replace(name, ":", "/"))

(***************************************************************************)
(* Response bodies and JSON.  json.loads and json.dumps are tables over    *)
(* the bodies of the model; dumps writes ", " and ": " separators, so the  *)
(* compact body of the server is not what dumps gives back.                *)
(***************************************************************************)
T_html == "<html>"
T_compact == "{\"result\":1}"
T_result == "{\"result\": 1}"
T_null == "{\"error\": null, \"result\": 1}"
T_101 == "{\"error\": {\"code\": 101, \"message\": \"nf\"}}"
T_500 == "{\"error\": {\"code\": 500, \"message\": \"internal\"}}"

\* What the server may answer and what a fixture file may hold.
Bodies == {T_html, T_compact, T_null, T_101, T_500}

\* A decoded JSON object: its "error" member (absent, null or an object
\* with code and message) and whether it has a "result" member.
JObj(err, code, message) == [err |-> err, code |-> code, message |-> message]
J_result == JObj("absent", 0, "")
J_null == JObj("null", 0, "")
J_101 == JObj("object", 101, "nf")
J_500 == JObj("object", 500, "internal")
J_none == JObj("-", 0, "")

IsJson(text) == text \in {T_compact, T_result, T_null, T_101, T_500}

json_loads(text) ==
    CASE text \in {T_compact, T_result} -> J_result
      [] text = T_null -> J_null
      [] text = T_101 -> J_101
      [] text = T_500 -> J_500

json_dumps(value) ==
    CASE value = J_result -> T_result
      [] value = J_null -> T_null
      [] value = J_101 -> T_101
      [] value = J_500 -> T_500

(***************************************************************************)
(* What an operation gives its caller: a value or an exception.            *)
(***************************************************************************)
Ret(kind, text, json, exc, code) ==
    [kind |-> kind, text |-> text, json |-> json, exc |-> exc, code |-> code]
Text(t) == Ret("text", t, J_none, "", 0)
Json(v) == Ret("json", "", v, "", 0)
Raise(e) == Ret("raise", "", J_none, e, 0)
RaiseCode(e, code, message) == Ret("raise", message, J_none, e, code)
None == Ret("none", "", J_none, "", 0)
EmptyDict == Ret("dict", "", J_none, "", 0)
Soup(t) == Ret("soup", t, J_none, "", 0)

\* class DownloadError(Exception); class CacheNotFoundError(DownloadError)
IsDownloadError(e) == e \in {"DownloadError", "CacheNotFoundError"}
\* class BugzillaError(Exception); class BugNotFoundError(BugzillaError)
IsBugzillaError(e) == e \in {"BugzillaError", "BugNotFoundError"}
\* requests.exceptions: SSLError and ConnectTimeout are ConnectionErrors;
\* RetryError, ChunkedEncodingError and HTTPError are not.
IsConnectionError(e) == e \in {"ConnectionError", "SSLError", "ConnectTimeout"}

\* dict[key] = value
Put(f, k, v) == [x \in DOMAIN f \cup {k} |-> IF x = k THEN v ELSE f[x]]
Empty == [x \in {} |-> ""]

(***************************************************************************)
(* The remote server as one request sees it: it fails `fails` times in a   *)
(* row in a way that invites a retry (`fail`: a connection error, a        *)
(* certificate that is not trusted, or a status of the retry list), and    *)
(* then gives its final answer (`final`).                                  *)
(* `openssl` says whether "import OpenSSL" succeeds and `probe` how the     *)
(* certificate probe on port 443 ends.                                     *)
(***************************************************************************)
Srv(fails, fail, final, body, openssl, probe) ==
    [fails |-> fails, fail |-> fail, final |-> final, body |-> body,
     openssl |-> openssl, probe |-> probe]
NoSrv == Srv(0, "-", "-", "", TRUE, "ok")

\* The certificate probe of lines 144-149: the certificate is fetched from
\* port 443 and its issuer has an O component; it cannot be fetched
\* (ssl.get_server_certificate raises OSError); its issuer has no O
\* component (next() on the empty filter raises StopIteration)
ProbeOutcomes == {"ok", "unreachable", "no_organization"}

FailKinds == {"conn", "503"}
GetFinals == {"badutf8", "404", "chunked"}
\* A certificate that is not trusted fails every attempt of the request
SslFinals == {Srv(RetryTotal + 1, "ssl", "-", "", FALSE, "ok")}
             \cup {Srv(RetryTotal + 1, "ssl", "-", "", TRUE, p) : p \in ProbeOutcomes}

\* The answers to a GET: a final answer at once (a body of B, a failure of
\* X), or after n failures, n in F; past the retry budget the final answer
\* is never asked for.
GetBehaviours(F, B, X) ==
    {Srv(0, "-", "200", b, TRUE, "ok") : b \in B}
    \cup {Srv(0, "-", f, "", TRUE, "ok") : f \in X \cap GetFinals}
    \cup (IF "ssl" \in X THEN SslFinals ELSE {})
    \cup {Srv(n, k, "200", b, TRUE, "ok") :
             n \in {m \in F : 0 < m /\ m <= RetryTotal}, k \in FailKinds, b \in B}
    \cup {Srv(n, k, "404", "", TRUE, "ok") :
             n \in {m \in F : 0 < m /\ m <= RetryTotal}, k \in FailKinds}
    \cup {Srv(n, k, "-", "", TRUE, "ok") : n \in {m \in F : m > RetryTotal}, k \in FailKinds}

\* The answers to a POST or to a REST request.
PostBehaviours(F, B) ==
    {Srv(n, IF n = 0 THEN "-" ELSE "conn", "200", b, TRUE, "ok") : n \in F, b \in B \cup {""}}
    \cup {Srv(n, IF n = 0 THEN "-" ELSE "conn", "500", "", TRUE, "ok") : n \in F}

\* What requests gives back: a response or an exception, and the number of
\* requests sent.
Response(status, body, utf8, attempts) ==
    [kind |-> "response", status |-> status, body |-> body, utf8 |-> utf8,
     exc |-> "", attempts |-> attempts]
Raised(exc, attempts) ==
    [kind |-> "raise", status |-> "", body |-> "", utf8 |-> TRUE,
     exc |-> exc, attempts |-> attempts]

FinalAnswer(srv, attempts) ==
    CASE srv.final = "200" -> Response("200", srv.body, TRUE, attempts)
      [] srv.final = "badutf8" -> Response("200", "", FALSE, attempts)
      [] srv.final \in {"404", "500"} -> Response(srv.final, "", TRUE, attempts)
      [] srv.final = "chunked" -> Raised("ChunkedEncodingError", attempts)

\* Response.raise_for_status(): HTTPError on a 4xx or 5xx status
IsErrorStatus(status) == status \in {"404", "429", "500", "502", "503", "504"}

\* A session whose adapter retries with Retry(total, status_forcelist):
\* a connection error, a TLS error or a listed status is retried while
\* retries are left; after `total` retries urllib3 gives up with
\* MaxRetryError, which requests raises as RetryError when the cause is the
\* status, as SSLError when it is a TLS error and as ConnectionError
\* otherwise.
RetryErrorOf(fail) ==
    IF fail = "conn" THEN "ConnectionError"
    ELSE IF fail = "ssl" THEN "SSLError"
    ELSE "RetryError"

http_get(srv) ==
    IF srv.fails > RetryTotal /\ (srv.fail \in {"conn", "ssl"} \/ srv.fail \in StatusForcelist)
    THEN Raised(RetryErrorOf(srv.fail), RetryTotal + 1)
    ELSE FinalAnswer(srv, srv.fails + 1)

\* requests.post / requests.request without a retrying adapter: one request
requests_request(srv) ==
    IF srv.fails > 0 THEN Raised("ConnectionError", 1) ELSE FinalAnswer(srv, 1)

_decode_content(raw, as_json) ==
    IF as_json
    THEN (IF IsJson(raw) THEN Json(json_loads(raw)) ELSE Raise("DownloadError"))
    ELSE Text(raw)

\* The except clauses of _get, in their order, on the exception of http.get
GetExcept(exc, srv) ==
    IF exc = "SSLError"
    THEN (IF ~srv.openssl THEN Raise("SSLError")
          ELSE IF srv.probe = "unreachable" THEN Raise("OSError")
          ELSE IF srv.probe = "no_organization" THEN Raise("StopIteration")
          ELSE Raise("DownloadError"))
    ELSE IF IsConnectionError(exc) THEN Raise("DownloadError")
    ELSE IF exc = "ChunkedEncodingError" THEN Raise("DownloadError")
    ELSE Raise(exc)

\* (mutant: the status of the response is not looked at)
_get_any_status(srv, as_json) ==
    LET r == http_get(srv) IN
    IF r.kind = "raise" THEN GetExcept(r.exc, srv)
    ELSE IF ~r.utf8 THEN Raise("UnicodeDecodeError")
    ELSE _decode_content(r.body, as_json)

_get(srv, as_json) ==
    LET r == http_get(srv) IN
    IF r.kind = "raise" THEN GetExcept(r.exc, srv)
    ELSE IF IsErrorStatus(r.status) THEN Raise("DownloadError")
    ELSE IF ~r.utf8 THEN Raise("UnicodeDecodeError")
    ELSE _decode_content(r.body, as_json)

(***************************************************************************)
(* get_page.                                                               *)
(***************************************************************************)
\* urljoin(root, url) for a root without a path and a url that starts with "/"
urljoin(root, url) == root \o url

absolute_url(root, url) == IF StartsWith(url, <<"/">>) THEN urljoin(root, url) ELSE url

\* (mutant: the in-memory entry is never looked up)
CacheHitNever(url, use_cache) == FALSE

\* (mutant: in load mode the file is read before the in-memory entry)
CacheHitUnlessLoad(url, use_cache) == url \in DOMAIN cache /\ use_cache /\ ~load

\* line 102: the in-memory entry is used
CacheHit(url, use_cache) == url \in DOMAIN cache /\ use_cache

\* (mutant: load mode is ignored)
UseDiskNever(use_cache) == FALSE

\* line 106: the content comes from load_dir
UseDisk(use_cache) == load /\ use_cache

\* The errno of codecs.open(load_dir/filename, "r"), "" when it succeeds
OpenErrno(filename, readable) ==
    IF filename \notin DOMAIN load_files THEN "ENOENT"
    ELSE IF ~readable THEN "EACCES"
    ELSE ""

\* (mutant: the except clause does not look at errno)
DiskLoadAnyErrno(url, filename, as_json, readable) ==
    IF OpenErrno(filename, readable) # "" THEN Raise("CacheNotFoundError")
    ELSE LET raw == load_files[filename] IN
         IF as_json
         THEN (IF IsJson(raw) THEN Json(json_loads(raw)) ELSE Raise("JSONDecodeError"))
         ELSE Text(raw)

\* lines 108-118: the read, its except clause and the decoding
DiskLoad(url, filename, as_json, readable) ==
    IF OpenErrno(filename, readable) = "ENOENT" THEN Raise("CacheNotFoundError")
    ELSE IF OpenErrno(filename, readable) # "" THEN Raise("IOError")
    ELSE LET raw == load_files[filename] IN
         IF as_json
         THEN (IF IsJson(raw) THEN Json(json_loads(raw)) ELSE Raise("JSONDecodeError"))
         ELSE Text(raw)

\* line 122: the text that is saved and memoized
RawOf(content, as_json) == IF as_json THEN json_dumps(content.json) ELSE content.text

\* (mutant: the file is named by the URL's last character only)
SaveFileShortName(files, filename, raw) ==
    IF save THEN Put(files, <<filename[Len(filename)]>>, raw) ELSE files

\* (mutant: the file is written whether or not the Browser saves)
SaveFileAlways(files, filename, raw) == Put(files, filename, raw)

\* lines 123-125
SaveFile(files, filename, raw) == IF save THEN Put(files, filename, raw) ELSE files

\* (mutant: the entry is keyed by the absolute URL that was fetched)
MemoizeAbsolute(url, raw) == Put(cache, absolute_url(root_url, url), raw)

\* line 126
Memoize(url, raw) == Put(cache, url, raw)

\* The outcome of a call: what it returns or raises, the cache and the save
\* directory after it, and the I/O it did.
Outcome(ret, c, sf, gets, reads, writes, hit, errno) ==
    [ret |-> ret, cache |-> c, save_files |-> sf, gets |-> gets, reads |-> reads,
     writes |-> writes, hit |-> hit, errno |-> errno]

get_page(url, as_json, use_cache, readable, srv) ==
    IF CacheHit(url, use_cache)
    THEN Outcome(IF as_json
                 THEN (IF IsJson(cache[url]) THEN Json(json_loads(cache[url]))
                       ELSE Raise("JSONDecodeError"))
                 ELSE Text(cache[url]),
                 cache, save_files, 0, 0, 0, TRUE, "")
    ELSE LET filename == url_to_filename(url)
             disk == UseDisk(use_cache)
             content == IF disk THEN DiskLoad(url, filename, as_json, readable)
                        ELSE _get(srv, as_json)
             gets == IF disk THEN 0 ELSE http_get(srv).attempts
             reads == IF disk THEN 1 ELSE 0
             errno == IF disk THEN OpenErrno(filename, readable) ELSE ""
         IN IF content.kind = "raise"
            THEN Outcome(content, cache, save_files, gets, reads, 0, FALSE, errno)
            ELSE LET raw == RawOf(content, as_json) IN
                 Outcome(content, Memoize(url, raw), SaveFile(save_files, filename, raw),
                         gets, reads, IF save THEN 1 ELSE 0, FALSE, errno)

(***************************************************************************)
(* json_rpc_get: the URL it builds and its reading of the response.        *)
(***************************************************************************)
Dummy == <<"h", "t", "t", "p", ":", "/", "/", "d", "u", "m", "m", "y">>
K_method == <<"m", "e", "t", "h", "o", "d">>
K_params == <<"p", "a", "r", "a", "m", "s">>
Digits == <<"1", "2", "3", "4", "5", "6", "7", "8", "9">>

\* json.dumps([params]) for a small positive integer
DumpsParams(params) == <<"[", Digits[params], "]">>

\* (mutant: the keys are not sorted, "params" comes first)
UnsortedKeys(d) == <<K_params, K_method>>

\* SortedDict iterates its keys in sorted order: "method" < "params"
SortedKeys(d) ==
    IF DOMAIN d = {K_method, K_params} THEN <<K_method, K_params>>
    ELSE IF DOMAIN d = {K_method} THEN <<K_method>>
    ELSE IF DOMAIN d = {K_params} THEN <<K_params>>
    ELSE <<>>

RECURSIVE urlencode(_, _)
\* urllib.parse.urlencode over the keys in the order given
urlencode(d, keys) ==
    IF keys = <<>> THEN <<>>
    ELSE quote_plus(Head(keys)) \o <<"=">> \o quote_plus(d[Head(keys)])
         \o (IF Tail(keys) = <<>> THEN <<>> ELSE <<"&">> \o urlencode(d, Tail(keys)))

\* requests.Request("GET", url, params).prepare().url for a url without query
PreparedUrl(url, d) == url \o <<"?">> \o urlencode(d, SortedKeys(d))

\* lines 187-189
get_url(url, method, params) ==
    LET absolute == IF StartsWith(url, <<"/">>) THEN urljoin(Dummy, url) ELSE url
        get_params == [k \in {K_method, K_params} |->
                          IF k = K_method THEN method ELSE DumpsParams(params)]
    IN PreparedUrl(absolute, get_params)

\* line 190: the URL handed to get_json, which is the cache key
rpc_key(url, method, params) == RemoveAll(get_url(url, method, params), Dummy)

\* (mutant: every error is a BugzillaError)
rpc_result_generic(response) ==
    IF response.err \notin {"absent", "null"}
    THEN RaiseCode("BugzillaError", response.code, response.message)
    ELSE Json(response)

\* lines 191-197
rpc_result(response) ==
    IF response.err \notin {"absent", "null"}
    THEN (IF response.code = BugNotFoundCode
          THEN RaiseCode("BugNotFoundError", response.code, response.message)
          ELSE RaiseCode("BugzillaError", response.code, response.message))
    ELSE Json(response)

\* (mutant: a response with an error is neither memoized nor saved)
json_rpc_get_forgetting_errors(url, method, params, use_cache, readable, srv) ==
    LET o == get_page(rpc_key(url, method, params), TRUE, use_cache, readable, srv) IN
    IF o.ret.kind = "raise" THEN o
    ELSE IF rpc_result(o.ret.json).kind = "raise"
    THEN [o EXCEPT !.ret = rpc_result(o.ret.json), !.cache = cache,
                   !.save_files = save_files]
    ELSE [o EXCEPT !.ret = rpc_result(o.ret.json)]

json_rpc_get(url, method, params, use_cache, readable, srv) ==
    LET o == get_page(rpc_key(url, method, params), TRUE, use_cache, readable, srv) IN
    IF o.ret.kind = "raise" THEN o ELSE [o EXCEPT !.ret = rpc_result(o.ret.json)]

\* assert url; BeautifulSoup(self.get_page(url), "html.parser")
get_soup(url, readable, srv) ==
    IF url = <<>>
    THEN Outcome(Raise("AssertionError"), cache, save_files, 0, 0, 0, FALSE, "")
    ELSE LET o == get_page(url, FALSE, TRUE, readable, srv) IN
         IF o.ret.kind = "raise" THEN o ELSE [o EXCEPT !.ret = Soup(o.ret.text)]

(***************************************************************************)
(* json_rpc_post and json_rest.                                            *)
(***************************************************************************)
\* Response.json() if Response.text else None
JsonOrNone(body) ==
    IF body = "" THEN None
    ELSE IF IsJson(body) THEN Json(json_loads(body))
    ELSE Raise("JSONDecodeError")

\* One pass of the loop body, lines 211-219, on the answer to one POST
PostAnswer(r) ==
    IF r.kind = "raise" THEN Raise(r.exc)
    ELSE IF IsErrorStatus(r.status) THEN Raise("HTTPError")
    ELSE JsonOrNone(r.body)

\* The result of json_rpc_post and the number of POSTs it sends
PostOutcome(ret, posts) == [ret |-> ret, posts |-> posts]

RECURSIVE PostLoopRaising(_, _)
\* (mutant: the last connection error is raised when the loop runs out)
PostLoopRaising(srv, i) ==
    IF i > PostAttempts THEN PostOutcome(Raise("ConnectionError"), PostAttempts)
    ELSE LET r == requests_request([srv EXCEPT !.fails = srv.fails - (i - 1)])
             a == PostAnswer(r)
         IN IF a.kind = "raise" /\ IsConnectionError(a.exc)
            THEN PostLoopRaising(srv, i + 1)
            ELSE PostOutcome(a, i)

RECURSIVE PostLoop(_, _)
\* for i in range(1, 7): attempt i against a server that still fails
\* srv.fails - (i - 1) times
PostLoop(srv, i) ==
    IF i > PostAttempts THEN PostOutcome(None, PostAttempts)
    ELSE LET r == requests_request([srv EXCEPT !.fails = srv.fails - (i - 1)])
             a == PostAnswer(r)
         IN IF a.kind = "raise" /\ IsConnectionError(a.exc) THEN PostLoop(srv, i + 1)
            ELSE PostOutcome(a, i)

\* (mutant: dry_run is not consulted)
PostNeverSuppressed == FALSE

\* line 204
PostSuppressed == dry_run

json_rpc_post(srv) ==
    IF PostSuppressed THEN PostOutcome(EmptyDict, 0) ELSE PostLoop(srv, 1)

\* str.upper() on the method names of the model
upper(method) ==
    CASE method \in {"get", "GET"} -> "GET"
      [] method \in {"post", "POST"} -> "POST"
      [] method \in {"put", "PUT"} -> "PUT"

\* (mutant: the method is compared with "GET" as it is written)
RestSuppressedExactCase(method) == dry_run /\ method # "GET"

\* line 231
RestSuppressed(method) == dry_run /\ upper(method) # "GET"

json_rest(method, srv) ==
    IF RestSuppressed(method) THEN PostOutcome(EmptyDict, 0)
    ELSE PostOutcome(PostAnswer(requests_request(srv)), 1)

\* headers = self.headers.copy(); headers["content-type"] = ...: what is
\* sent, and what self.headers is afterwards
RequestHeaders(h) == h \cup {"content-type"}
HeadersAfterRequest(h) == h

(***************************************************************************)
(* The inputs of the model.                                                *)
(***************************************************************************)
PageUrls == {<<"/", "a">>}
RpcPaths == {<<"/", "r">>}
Methods == {<<"g">>}
Params == {1}
RestMethods == {"GET", "get", "post", "PUT"}
RpcKeys == {rpc_key(u, m, p) : u \in RpcPaths, m \in Methods, p \in Params}
Urls == PageUrls \cup RpcKeys

PageBodies == {T_html, T_compact}
RpcBodies == {T_compact, T_null, T_101, T_500}
ServerBodies(url) == IF url \in PageUrls THEN PageBodies ELSE RpcBodies
PostBodies == {T_html, T_compact}

\* The directories of fixtures a run started with --load may find.
Fixtures ==
    {Empty, [f \in {url_to_filename(u) : u \in PageUrls} |-> T_html]}

\* The environment of one get_page: whether the fixture file, if it is
\* there, can be read, and what the server does.  Only the part that the
\* call can observe is enumerated.
Environments(url, use_cache, F, X) ==
    IF CacheHit(url, use_cache) THEN {<<TRUE, NoSrv>>}
    ELSE IF UseDisk(use_cache) THEN {<<r, NoSrv>> : r \in BOOLEAN}
    ELSE {<<TRUE, b>> : b \in GetBehaviours(F, ServerBodies(url), X)}

(***************************************************************************)
(* Construction.                                                           *)
(***************************************************************************)
\* (mutant: --save and --load are plain arguments of the parser)
add_plain_args(argv) == TRUE

\* add_load_save_args: --save and --load are in one mutually exclusive
\* group, so the parser rejects a command line that has both.
add_load_save_args(argv) == ~({"--save", "--load"} \subseteq argv)

\* The argument objects Browser.__init__ can be given: it reads args.save
\* and args.load of any object, whoever built it
Namespaces == SUBSET {"--save", "--load"}

\* The argument objects the parser gives
ParsedArgs == {argv \in Namespaces : add_load_save_args(argv)}

Call(op, url, as_json, use_cache, method, o, posts, srv) ==
    [op |-> op, url |-> url, as_json |-> as_json, cache |-> use_cache,
     method |-> method, ret |-> o.ret, gets |-> o.gets, reads |-> o.reads,
     writes |-> o.writes, hit |-> o.hit, errno |-> o.errno, posts |-> posts,
     srv |-> srv]

NoCall == Call("-", <<>>, FALSE, FALSE, "",
               Outcome(None, Empty, Empty, 0, 0, 0, FALSE, ""), 0, NoSrv)

\* Browser.__init__ on an argument object, whose attributes it takes as
\* they are; load_dir and save_dir are the same directory ".", so
\* load_files and save_files are the same files
Constructed(modes) ==
    /\ \E argv \in modes :
          /\ save = ("--save" \in argv)
          /\ load = ("--load" \in argv)
    /\ load_dir = "."
    /\ save_dir = "."
    /\ auth = "none"
    /\ dry_run \in BOOLEAN
    /\ root_url = <<"h", "t", "t", "p", ":", "/", "/", "h">>
    /\ headers = {"User-Agent"}
    /\ cache = Empty
    /\ load_files \in (IF load THEN Fixtures ELSE {Empty})
    /\ save_files = (IF save_dir = load_dir THEN load_files ELSE Empty)
    /\ phase = "first"
    /\ steps = 0
    /\ last = NoCall

\* The argument object the Browser was built from, as its attributes tell
Args == {f \in {"--save", "--load"} : (f = "--save" /\ save) \/ (f = "--load" /\ load)}

\* The Browser is built from an argument object; __init__ does not ask
\* where it comes from
Init == Constructed(Namespaces)

(***************************************************************************)
(* The operations.                                                         *)
(***************************************************************************)
\* The first run is not bounded; the run after a restart is.
MayCall == phase = "first" \/ steps < MaxReplayOps
Counted == IF phase = "first" THEN steps ELSE steps + 1

\* A call that went through get_page
Fetched(op, url, as_json, use_cache, o, srv) ==
    /\ MayCall
    /\ cache' = o.cache
    /\ save_files' = o.save_files
    /\ load_files' = (IF load_dir = save_dir THEN o.save_files ELSE load_files)
    /\ last' = Call(op, url, as_json, use_cache, "", o, 0, srv)
    /\ steps' = Counted
    /\ UNCHANGED <<config, phase>>

\* A call that sends a request of its own
Sent(op, url, method, p, srv) ==
    /\ MayCall
    /\ last' = Call(op, url, FALSE, FALSE, method,
                    Outcome(p.ret, cache, save_files, 0, 0, 0, FALSE, ""), p.posts,
                    IF p.posts = 0 THEN NoSrv ELSE srv)
    /\ headers' = HeadersAfterRequest(headers)
    /\ steps' = Counted
    /\ UNCHANGED <<save, load, load_dir, save_dir, dry_run, root_url, auth, cache,
                   load_files, save_files, phase>>

GetPage(U, F, X) ==
    \E url \in U, as_json \in BOOLEAN, use_cache \in BOOLEAN :
      \E env \in Environments(url, use_cache, F, X) :
        Fetched("get_page", url, as_json, use_cache,
                get_page(url, as_json, use_cache, env[1], env[2]), env[2])

\* get_json is get_page with as_json=True
GetJson(U, F, X) ==
    \E url \in U, use_cache \in BOOLEAN :
      \E env \in Environments(url, use_cache, F, X) :
        Fetched("get_page", url, TRUE, use_cache,
                get_page(url, TRUE, use_cache, env[1], env[2]), env[2])

GetSoup(U, F, X) ==
    \E url \in U :
      \E env \in Environments(url, TRUE, F, X) :
        Fetched("get_soup", url, FALSE, TRUE, get_soup(url, env[1], env[2]), env[2])

JsonRpcGet(F, X) ==
    \E url \in RpcPaths, method \in Methods, params \in Params, use_cache \in BOOLEAN :
      LET key == rpc_key(url, method, params) IN
      \E env \in Environments(key, use_cache, F, X) :
        Fetched("json_rpc_get", key, TRUE, use_cache,
                json_rpc_get(url, method, params, use_cache, env[1], env[2]), env[2])

JsonRpcPost(F) ==
    \E url \in RpcPaths :
      \E srv \in (IF PostSuppressed THEN {NoSrv} ELSE PostBehaviours(F, PostBodies)) :
        Sent("json_rpc_post", absolute_url(root_url, url), "POST", json_rpc_post(srv), srv)

JsonRest(F) ==
    \E url \in RpcPaths, method \in RestMethods :
      \E srv \in (IF RestSuppressed(method) THEN {NoSrv}
                  ELSE PostBehaviours(F, PostBodies)) :
        Sent("json_rest", absolute_url(root_url, url), method, json_rest(method, srv), srv)

\* The run ends and a new Browser is built with --load on the directory the
\* first one saved to.
Restart ==
    /\ phase = "first"
    /\ save
    /\ save' = FALSE
    /\ load' = TRUE
    /\ cache' = Empty
    /\ load_dir' = save_dir
    /\ load_files' = save_files
    /\ phase' = "replay"
    /\ UNCHANGED <<save_dir, dry_run, root_url, auth, headers, save_files, steps, last>>

\* The server answers at once: no request is retried.
Prompt == {0}
Plain == {"404"}

Next ==
    \/ GetPage(Urls, Prompt, Plain)
    \/ GetJson(Urls, Prompt, Plain)
    \/ GetSoup(Urls, Prompt, Plain)
    \/ JsonRpcGet(Prompt, Plain)
    \/ JsonRpcPost(Prompt)
    \/ JsonRest(Prompt)
    \/ Restart

Spec == Init /\ [][Next]_vars

\* The live requests with every answer of the server, retries included, on
\* a Browser that neither loads nor saves.
Failures == 0..MaxFailures
Faults == GetFinals \cup {"ssl"}

InitLive == Constructed({{}})

NextLive ==
    \/ GetPage(PageUrls, Failures, Faults)
    \/ JsonRpcPost(Failures)
    \/ JsonRest(Failures)

SpecLive == InitLive /\ [][NextLive]_vars

\* The two module-level functions on every URL of up to MaxUrlLen characters
\* over an alphabet with "/", ":", "%", another character that quote
\* encodes, and two hexadecimal digits (so that "%3A" is a URL too).
CodecAlphabet == {"/", ":", "%", "?", "3", "A"}
CodecUrls == UNION {[1..n -> CodecAlphabet] : n \in 0..MaxUrlLen}
\* Names that url_to_filename does not produce
OtherNames == {<<"%">>, <<"%", "3">>, <<"%", "A", "3">>, <<"/", "%", "3", "a">>}

Name(t) == Ret("name", t, J_none, "", 0)

\* A call of a function that touches no Browser
Applied(op, arg, result) ==
    /\ last' = Call(op, arg, FALSE, FALSE, "",
                    Outcome(Name(result), Empty, Empty, 0, 0, 0, FALSE, ""), 0, NoSrv)
    /\ UNCHANGED <<config, cache, load_files, save_files, phase, steps>>

UrlToFilename == \E url \in CodecUrls : Applied("url_to_filename", url, url_to_filename(url))

\* filename_to_url on the name just produced, or on another name
FilenameToUrl ==
    \E name \in (IF last.op = "url_to_filename" THEN {last.ret.text} ELSE {})
                    \cup OtherNames :
        Applied("filename_to_url", name, filename_to_url(name))

InitCodec == Constructed({{}}) /\ ~dry_run

NextCodec == UrlToFilename \/ FilenameToUrl

SpecCodec == InitCodec /\ [][NextCodec]_vars

(***************************************************************************)
(* The claims.                                                             *)
(***************************************************************************)
\* `last` was made by the Browser of the current state
Own == phase = "first" \/ steps > 0
\* This step is a call on a Browser that has made a call before
NextCall == phase' = phase /\ Own /\ last.op # "-"
\* The call went to the disk or to the network
Retrievals(c) == c.reads + (IF c.gets > 0 THEN 1 ELSE 0)
\* What get_page gives for a memoized text
Decoded(raw, as_json) ==
    IF ~as_json THEN Text(raw)
    ELSE IF IsJson(raw) THEN Json(json_loads(raw))
    ELSE Raise("JSONDecodeError")
\* Two consecutive get_page calls for one URL, both with cache=True
TwoCachedCalls ==
    /\ NextCall
    /\ last.op = "get_page" /\ last.cache
    /\ last'.op = "get_page" /\ last'.cache
    /\ last'.url = last.url

\* C1 as stated: two get_page calls for one URL with cache=True retrieve at
\* most once in total, whatever the outcome of the retrieval, and the second
\* returns the memoized value.
C1_AtMostOnceAlways ==
    [][TwoCachedCalls =>
         /\ Retrievals(last) + Retrievals(last') <= 1
         /\ last.url \in DOMAIN cache
         /\ last'.ret = Decoded(cache[last.url], last'.as_json)]_vars

\* C1 amended: when the first of two get_page calls for one URL with
\* cache=True returns, the second does no retrieval, leaves cache and files
\* as they are, and returns the memoized text, decoded if as_json (a
\* JSONDecodeError when that text is not JSON).
C1_AtMostOnceAfterSuccess ==
    [][(TwoCachedCalls /\ last.ret.kind # "raise") =>
         /\ Retrievals(last) <= 1
         /\ Retrievals(last') = 0
         /\ last'.gets = 0 /\ last'.writes = 0
         /\ last.url \in DOMAIN cache
         /\ last'.ret = Decoded(cache[last.url], last'.as_json)
         /\ cache' = cache /\ save_files' = save_files]_vars

C1_Witness ==
    /\ last.op = "get_page" /\ last.cache /\ last.hit
    /\ last.ret.kind = "json"

\* C2: in load mode a get_page with cache=True for a URL with no in-memory
\* entry raises CacheNotFoundError, a DownloadError, when the file is
\* missing, and only then; another failure to open it is raised as the
\* IOError it is.
C2_CacheNotFound ==
    [][(/\ phase' = phase /\ load
        /\ last'.op = "get_page" /\ last'.cache
        /\ last'.url \notin DOMAIN cache) =>
         /\ (url_to_filename(last'.url) \notin DOMAIN load_files
               => (/\ last'.ret = Raise("CacheNotFoundError")
                   /\ IsDownloadError(last'.ret.exc)
                   /\ last'.errno = "ENOENT"))
         /\ (last'.ret.exc = "CacheNotFoundError"
               => url_to_filename(last'.url) \notin DOMAIN load_files)
         /\ (last'.errno = "EACCES" => last'.ret = Raise("IOError"))
         /\ last'.gets = 0]_vars

C2_Witness ==
    /\ load /\ Own /\ last.op = "get_page" /\ last.cache
    /\ last.ret = Raise("CacheNotFoundError")
    /\ last.url \notin DOMAIN cache

\* C3: a fetch that a saving Browser returned from is replayed by a new
\* Browser that loads from the directory saved to: the same call (same URL,
\* same as_json, cache at its default) returns the same content and sends
\* no request, the saved file being still readable.
C3_Replay ==
    [][(/\ phase = "replay" /\ steps = 0 /\ steps' = 1
        /\ last.op = "get_page" /\ last.ret.kind # "raise"
        /\ last'.op = "get_page" /\ last'.cache
        /\ last'.url = last.url /\ last'.as_json = last.as_json
        /\ last'.errno # "EACCES") =>
         /\ last'.ret = last.ret
         /\ last'.gets = 0
         /\ last'.reads = 1]_vars

C3_Witness ==
    /\ phase = "replay" /\ steps = 1
    /\ last.op = "get_page" /\ last.as_json /\ last.reads = 1
    /\ last.ret = Json(J_result)
    /\ save_files[url_to_filename(last.url)] = T_result

\* C4 as stated: a Browser with load=True never sends a GET, whatever the
\* cache flag.
C4_NoNetworkInLoadMode ==
    (load /\ Own /\ last.op \in {"get_page", "get_soup", "json_rpc_get"})
        => last.gets = 0

\* C4 amended: a Browser with load=True sends no GET in a call with
\* cache=True; a call with cache=False bypasses the in-memory cache and the
\* load directory alike and goes to the network.
C4_NoNetworkInLoadModeWithCache ==
    (load /\ Own /\ last.op \in {"get_page", "get_soup", "json_rpc_get"})
        => /\ (last.cache => last.gets = 0)
           /\ (~last.cache => (last.gets > 0 /\ last.reads = 0 /\ ~last.hit))

C4_Witness ==
    /\ load /\ Own /\ last.op = "get_page" /\ last.cache
    /\ last.reads = 1 /\ last.ret.kind = "text"

\* C5: json_rpc_get raises BugNotFoundError with code 101 for an error of
\* code 101, a BugzillaError that is no BugNotFoundError with the code and
\* message for any other error, and returns a response whose error is
\* absent or null.
C5_RpcClassification ==
    (Own /\ last.op = "json_rpc_get"
       /\ ~(last.ret.kind = "raise" /\ ~IsBugzillaError(last.ret.exc)))
        => /\ last.url \in DOMAIN cache
           /\ LET response == json_loads(cache[last.url]) IN
              /\ ((response.err = "object" /\ response.code = 101)
                    => last.ret = RaiseCode("BugNotFoundError", 101, response.message))
              /\ ((response.err = "object" /\ response.code # 101)
                    => last.ret = RaiseCode("BugzillaError", response.code,
                                            response.message))
              /\ (response.err \in {"absent", "null"} => last.ret = Json(response))

C5_Witness ==
    /\ last.op = "json_rpc_get"
    /\ last.ret.exc = "BugNotFoundError" /\ last.ret.code = 101

\* C6: with dry_run set, json_rpc_post sends nothing and returns {}.
C6_DryRunPost ==
    (dry_run /\ last.op = "json_rpc_post")
        => last.posts = 0 /\ last.gets = 0 /\ last.ret = EmptyDict

C6_Witness ==
    /\ dry_run /\ last.op = "json_rpc_post"
    /\ DOMAIN cache # {}

\* C7: outside dry-run json_rpc_post sends at most 6 POSTs, one more only
\* after a connection error; the first answer that is no connection error
\* ends it (an error status is raised as HTTPError, not retried); 6
\* connection errors in a row make it return None.
C7_PostRetries ==
    (~dry_run /\ last.op = "json_rpc_post")
        => /\ 1 <= last.posts /\ last.posts <= 6
           /\ (last.srv.fails >= 6 => (last.posts = 6 /\ last.ret = None))
           /\ (last.srv.fails < 6 =>
                 /\ last.posts = last.srv.fails + 1
                 /\ (last.srv.final = "500" => last.ret = Raise("HTTPError"))
                 /\ (last.srv.final = "200" => last.ret = JsonOrNone(last.srv.body)))

C7_Witness ==
    /\ ~dry_run /\ last.op = "json_rpc_post"
    /\ last.srv.fails >= 6 /\ last.posts = 6 /\ last.ret = None

\* C8 as stated: when the server answers 503 to every request of a live
\* fetch, the request is sent once and retried 7 times, and the fetch ends
\* in a DownloadError.
C8_PersistentStatusIsDownloadError ==
    (last.op = "get_page" /\ last.srv.fail = "503" /\ last.srv.fails >= last.gets
       /\ last.gets > 0)
        => /\ last.gets = RetryTotal + 1
           /\ last.ret.kind = "raise"
           /\ IsDownloadError(last.ret.exc)

\* C9 as stated: a live fetch that fails raises a DownloadError, or the
\* SSLError itself when OpenSSL cannot be imported, and nothing else.
C9_OnlyDownloadErrors ==
    (last.op = "get_page" /\ last.gets > 0 /\ last.ret.kind = "raise")
        => \/ IsDownloadError(last.ret.exc)
           \/ (last.ret.exc = "SSLError" /\ ~last.srv.openssl)

C11_RoundTrip ==
    /\ [][(last.op = "url_to_filename" /\ last'.op = "filename_to_url"
             /\ last'.url = last.ret.text) => last'.ret.text = last.url]_vars
    /\ [][(last.op = "url_to_filename" /\ last'.op = "url_to_filename"
             /\ last'.url # last.url) => last'.ret.text # last.ret.text]_vars

\* "%3A" itself, named "%253A", read back after ":" was named "%3A"
C11_Witness ==
    /\ last.op = "filename_to_url"
    /\ last.url = <<"%", "2", "5", "3", "A">>
    /\ last.ret.text = <<"%", "3", "A">>

\* C12: json_rest sends nothing and returns {} when dry_run is set and the
\* method, in upper case, is not GET; otherwise it sends exactly one request,
\* whatever the answer: a connection error or an error status is raised, a
\* body is returned decoded and an empty body gives None.
C12_JsonRest ==
    (last.op = "json_rest")
        => IF dry_run /\ last.method \notin {"GET", "get"}
           THEN last.posts = 0 /\ last.gets = 0 /\ last.ret = EmptyDict
           ELSE /\ last.posts = 1
                /\ (last.srv.fails > 0 => last.ret = Raise("ConnectionError"))
                /\ ((last.srv.fails = 0 /\ last.srv.final = "500")
                      => last.ret = Raise("HTTPError"))
                /\ ((last.srv.fails = 0 /\ last.srv.final = "200")
                      => last.ret = JsonOrNone(last.srv.body))
                /\ ((last.srv.fails = 0 /\ last.srv.final = "200" /\ last.srv.body = "")
                      => last.ret = None)
                /\ ((last.srv.fails = 0 /\ last.srv.final = "200"
                       /\ last.srv.body = T_compact) => last.ret = Json(J_result))

C12_Witness ==
    /\ dry_run /\ last.op = "json_rest" /\ last.method = "get"
    /\ last.posts = 1 /\ last.ret = Json(J_result)

\* The URL json_rpc_get builds for "/r", method "g" and params 1
RpcUrl_r_g_1 ==
    <<"/", "r", "?", "m", "e", "t", "h", "o", "d", "=", "g", "&",
      "p", "a", "r", "a", "m", "s", "=", "%", "5", "B", "1", "%", "5", "D">>

\* Two consecutive json_rpc_get calls with the same arguments, cache=True
TwoCachedRpcCalls ==
    /\ NextCall
    /\ last.op = "json_rpc_get" /\ last.cache
    /\ last'.op = "json_rpc_get" /\ last'.cache
    /\ last'.url = last.url

\* C13 as stated: the URL json_rpc_get asks for has "method" before
\* "params", the same for the same arguments, and two calls with the same
\* arguments and cache=True retrieve at most once in total.
C13_OneKeyOneRetrieval ==
    /\ [](last.op = "json_rpc_get" => last.url = RpcUrl_r_g_1)
    /\ [][TwoCachedRpcCalls => Retrievals(last) + Retrievals(last') <= 1]_vars

\* C13 amended: the URL is as stated; when the retrieval of the first of
\* two such calls did not fail (the call returned, or raised a
\* BugzillaError for the response it got), the second call finds the
\* response under that URL in the in-memory cache and retrieves nothing.
C13_OneKeyOneRetrievalAfterSuccess ==
    /\ [](last.op = "json_rpc_get" => last.url = RpcUrl_r_g_1)
    /\ [][(TwoCachedRpcCalls
            /\ (last.ret.kind = "raise" => IsBugzillaError(last.ret.exc))) =>
             /\ Retrievals(last) <= 1
             /\ last.url \in DOMAIN cache
             /\ last'.hit /\ Retrievals(last') = 0 /\ last'.gets = 0
             /\ last'.ret = rpc_result(json_loads(cache[last.url]))]_vars

C13_Witness ==
    /\ last.op = "json_rpc_get" /\ last.cache /\ last.hit
    /\ last.url = RpcUrl_r_g_1
    /\ last.ret = Json(J_null)

\* C14: a get_page with cache=True for a URL that has an in-memory entry
\* gives that entry, decoded if as_json, and reads no file, sends no
\* request and writes no file; so too in load mode when the file of the URL
\* is missing: no CacheNotFoundError.
C14_CacheHitFirst ==
    [][(/\ phase' = phase
        /\ last'.op = "get_page" /\ last'.cache
        /\ last'.url \in DOMAIN cache) =>
         /\ last'.hit
         /\ last'.ret = Decoded(cache[last'.url], last'.as_json)
         /\ last'.reads = 0 /\ last'.gets = 0 /\ last'.writes = 0
         /\ last'.ret.exc # "CacheNotFoundError"
         /\ cache' = cache /\ save_files' = save_files]_vars

C14_Witness ==
    /\ load /\ Own /\ last.op = "get_page" /\ last.cache /\ last.hit
    /\ url_to_filename(last.url) \notin DOMAIN load_files
    /\ last.ret = Text(T_html)

\* C15: a get_page that returns after reading a file or fetching memoizes
\* the raw text under the URL it was given, whatever the cache flag; after
\* a get_page(U, cache=False) that returned, a get_page(U, cache=True)
\* retrieves nothing and returns the same value (for the same as_json); a
\* get_page(U, cache=False) never uses an entry that exists, goes to the
\* network and, when it returns, replaces the entry.
C15_MemoizeAlways ==
    [][/\ ((/\ phase' = phase /\ last'.op = "get_page"
             /\ ~last'.hit /\ last'.ret.kind # "raise") =>
              /\ DOMAIN cache' = DOMAIN cache \cup {last'.url}
              /\ cache'[last'.url] = (IF last'.as_json THEN json_dumps(last'.ret.json)
                                      ELSE last'.ret.text)
              /\ \A u \in DOMAIN cache \ {last'.url} : cache'[u] = cache[u])
       /\ ((/\ NextCall
             /\ last.op = "get_page" /\ ~last.cache /\ last.ret.kind # "raise"
             /\ last'.op = "get_page" /\ last'.cache /\ last'.url = last.url) =>
              /\ last'.hit /\ Retrievals(last') = 0 /\ last'.gets = 0
              /\ last'.ret = Decoded(cache[last.url], last'.as_json)
              /\ (last'.as_json = last.as_json => last'.ret = last.ret))
       /\ ((/\ phase' = phase /\ last'.op = "get_page" /\ ~last'.cache
             /\ last'.url \in DOMAIN cache) =>
              /\ ~last'.hit /\ last'.gets > 0 /\ last'.reads = 0
              /\ (last'.ret.kind = "text" => cache'[last'.url] = last'.ret.text)
              /\ (last'.ret.kind = "json" =>
                    cache'[last'.url] = json_dumps(last'.ret.json)))]_vars

\* A get_page(cache=False) in load mode that fetched and memoized
C15_Witness ==
    /\ load /\ Own /\ last.op = "get_page" /\ ~last.cache /\ last.as_json
    /\ last.gets = 1 /\ last.srv.body = T_compact
    /\ last.ret = Json(J_result)
    /\ cache[last.url] = T_result

\* C16: in save mode a get_page that returns after reading a file or
\* fetching has written the raw text to the file url_to_filename(url) of
\* save_dir, and only that; a get_page served from the in-memory cache
\* writes nothing; a Browser that does not save never changes a file of
\* save_dir or of load_dir.
C16_SaveWrites ==
    [][phase' = phase =>
         /\ ((save /\ last'.op = "get_page" /\ ~last'.hit /\ last'.ret.kind # "raise") =>
               /\ last'.writes = 1
               /\ save_files' = Put(save_files, url_to_filename(last'.url),
                                    IF last'.as_json THEN json_dumps(last'.ret.json)
                                    ELSE last'.ret.text))
         /\ (last'.hit => (last'.writes = 0 /\ save_files' = save_files))
         /\ (~save => /\ last'.writes = 0
                      /\ save_files' = save_files /\ load_files' = load_files)]_vars

C16_Witness ==
    /\ save /\ phase = "first" /\ last.op = "get_page" /\ ~last.hit /\ last.as_json
    /\ last.writes = 1 /\ last.srv.body = T_compact
    /\ save_files[url_to_filename(last.url)] = T_result

\* C17 as stated: when the certificate of the server is not trusted, the
\* fetch raises the SSLError itself if OpenSSL cannot be imported, and a
\* DownloadError if it can; it returns nothing, and _get asks http.get
\* once only.
C17_TlsFailure ==
    (last.op = "get_page" /\ last.srv.fail = "ssl" /\ last.gets > 0)
        => /\ last.ret.kind = "raise"
           /\ (~last.srv.openssl => last.ret = Raise("SSLError"))
           /\ (last.srv.openssl => last.ret = Raise("DownloadError"))
           /\ last.gets <= RetryTotal + 1

\* The call failed while resolving: the file to load is missing, the server
\* answered with an error status, or the read or the fetch raised
FailedResolving(c) ==
    \/ c.ret.kind = "raise" /\ ~c.hit
    \/ c.errno = "ENOENT"
    \/ c.gets > 0 /\ c.srv.final = "404"

\* C18: a get_page that fails while resolving raises and leaves the
\* in-memory cache and the save directory as they were; the next get_page
\* for that URL, which has no entry, reads the file or fetches again.
C18_FailureAtomicity ==
    [][/\ ((phase' = phase /\ last'.op = "get_page" /\ FailedResolving(last')) =>
              /\ last'.ret.kind = "raise"
              /\ cache' = cache /\ save_files' = save_files
              /\ last'.writes = 0)
       /\ ((/\ NextCall
             /\ last.op = "get_page" /\ FailedResolving(last)
             /\ last.url \notin DOMAIN cache
             /\ last'.op = "get_page" /\ last'.url = last.url) =>
              /\ ~last'.hit
              /\ Retrievals(last') = 1)]_vars

\* A fetch failed on a saving Browser that has saved another URL
C18_Witness ==
    /\ save /\ last.op = "get_page" /\ ~last.as_json
    /\ last.gets = 1 /\ last.srv.final = "404"
    /\ last.ret = Raise("DownloadError")
    /\ last.url \notin DOMAIN cache
    /\ DOMAIN cache # {} /\ DOMAIN save_files # {}

\* C19: on a saving Browser every URL of the in-memory cache has its file
\* in save_dir, and the file holds the memoized text.
C19_SavedWhatIsMemoized ==
    save => \A u \in DOMAIN cache :
               /\ url_to_filename(u) \in DOMAIN save_files
               /\ save_files[url_to_filename(u)] = cache[u]

\* Both URLs memoized and saved, the last call having failed
C19_Witness ==
    /\ save /\ DOMAIN cache = Urls
    /\ last.op = "get_page" /\ ~last.cache /\ last.ret = Raise("DownloadError")
    /\ \E u \in PageUrls : cache[u] = T_compact /\ save_files[url_to_filename(u)] = T_compact

\* The memoized text is a response with an error
IsErrorResponse(text) == IsJson(text) /\ json_loads(text).err = "object"

\* C20: a json_rpc_get that raises BugzillaError or BugNotFoundError after
\* a retrieval has memoized the response (and, on a saving Browser, saved
\* it); the same call with cache=True then raises the same error with the
\* same code and retrieves nothing; a memoized error response stays as it
\* is until a call for its URL with cache=False fetches another.
C20_RpcErrorMemoized ==
    [][/\ ((/\ phase' = phase /\ last'.op = "json_rpc_get"
             /\ IsBugzillaError(last'.ret.exc) /\ ~last'.hit) =>
              /\ last'.url \in DOMAIN cache'
              /\ IsErrorResponse(cache'[last'.url])
              /\ rpc_result(json_loads(cache'[last'.url])) = last'.ret
              /\ (save => /\ url_to_filename(last'.url) \in DOMAIN save_files'
                          /\ save_files'[url_to_filename(last'.url)] = cache'[last'.url]))
       /\ ((/\ NextCall
             /\ last.op = "json_rpc_get" /\ IsBugzillaError(last.ret.exc)
             /\ last'.op = "json_rpc_get" /\ last'.cache /\ last'.url = last.url) =>
              /\ last'.ret = last.ret
              /\ last'.hit /\ Retrievals(last') = 0 /\ last'.gets = 0)
       /\ (phase' = phase =>
              \A u \in DOMAIN cache :
                 IsErrorResponse(cache[u]) =>
                    /\ u \in DOMAIN cache'
                    /\ (cache'[u] # cache[u] =>
                          (~last'.cache /\ last'.url = u /\ last'.gets > 0)))]_vars

C20_Witness ==
    /\ save /\ last.op = "json_rpc_get" /\ last.cache /\ last.hit
    /\ last.ret = RaiseCode("BugzillaError", 500, "internal")
    /\ save_files[url_to_filename(last.url)] = T_500

====
